---- MODULE Spec2Model ----
(***************************************************************************)
(* Model of the maven-publish action: the three versions of its main()     *)
(* (src/src/index.ts, src/unnamed/part_000, src/unnamed/part_001) and the  *)
(* idempotency probe artifactExists (src/unnamed/part_001).                *)
(*                                                                         *)
(* Strings that the code takes apart (file names, the comma-joined lists)  *)
(* are tuples of one-character strings, so that startsWith, substring,     *)
(* path.parse and join are computed character by character.  Strings the   *)
(* code only passes along (flags, messages, cache key) are TLA+ strings.   *)
(***************************************************************************)
EXTENDS Integers, Sequences, FiniteSets, TLC

VARIABLES
    variant,      \* which version of main() runs
    listing,      \* fs.readdirSync(folder): the folder's entries, in order
    pomFiles,     \* result of globSync('**/*.pom')
    pc,           \* position of main(): the await it is suspended at
    i,            \* index of the for-of loop over pomFiles (1-based)
    settingsFile, \* content of <tempDir>/maven-settings.xml written by this run
    cacheRestore, \* the cache.restoreCache call and its outcome
    cacheSave,    \* the cache.saveCache call and its outcome
    log,          \* one entry per exec.exec('mvn', cmd, ...) call, in order
    warnings,     \* core.warning calls, in order
    failed,       \* core.setFailed was called
    failMessage,  \* the message given to core.setFailed
    probes,       \* one entry per artifactExists call, in order
    cbase,        \* classification check: the family's base name
    cfile,        \* classification check: the sibling's file name
    cout          \* classification check: result of the loop body

vars == <<variant, listing, pomFiles, pc, i, settingsFile, cacheRestore,
          cacheSave, log, warnings, failed, failMessage, probes,
          cbase, cfile, cout>>

runVars == <<variant, listing, pomFiles, pc, i, settingsFile, cacheRestore,
             cacheSave, log, warnings, failed, failMessage, probes>>

clsVars == <<cbase, cfile, cout>>

-----------------------------------------------------------------------------
(* Bounds *)

\* longest folder listing explored by the run specification
MaxFiles == 4

\* longest stem (before the appended extension) of a generated file name
MaxStemLen == 3

-----------------------------------------------------------------------------
(* String helpers: JavaScript string methods used by main() *)

\* String.prototype.startsWith
StartsWith(s, p) ==
    /\ Len(s) >= Len(p)
    /\ SubSeq(s, 1, Len(p)) = p

\* String.prototype.substring(n) with 0-based n
Substring(s, n) == SubSeq(s, n + 1, Len(s))

\* index (1-based) of the last "." of s, 0 when there is none
LastDot(s) ==
    LET dots == {k \in 1..Len(s) : s[k] = "."}
    IN  IF dots = {} THEN 0 ELSE CHOOSE k \in dots : \A m \in dots : m <= k

\* path.parse(base) of a name without directory part: {name, ext}.
\* No extension when there is no dot, when the last dot is the first
\* character, or when the name is "..".
PathParse(f) ==
    LET ld == LastDot(f)
    IN  IF ld <= 1 \/ f = <<".", ".">>
        THEN [name |-> f, ext |-> <<>>]
        ELSE [name |-> SubSeq(f, 1, ld - 1), ext |-> SubSeq(f, ld, Len(f))]

\* Array.prototype.join(sep) on an array of strings
RECURSIVE Join(_, _)
Join(parts, sep) ==
    IF parts = <<>> THEN <<>>
    ELSE IF Len(parts) = 1 THEN parts[1]
    ELSE parts[1] \o sep \o Join(Tail(parts), sep)

-----------------------------------------------------------------------------
(* Classification of the siblings of a family *)

ignoredExts ==
    { <<".", "p", "o", "m">>,
      <<".", "m", "d", "5">>,
      <<".", "s", "h", "a", "1">>,
      <<".", "s", "h", "a", "2", "5", "6">>,
      <<".", "s", "h", "a", "5", "1", "2">> }

JarType == <<"j", "a", "r">>

NotExtra == [extra |-> FALSE, type |-> <<>>, classifier |-> <<>>]

\* mutant: the separator boundary check of the loop body is dropped
ClassifyFile_NoBoundary(basename, filePath) ==
    LET parsed == PathParse(filePath)
        type   == Substring(parsed.ext, 1)
        rest   == Substring(parsed.name, Len(basename))
        classifier == IF Len(rest) > 0 THEN Substring(rest, 1) ELSE rest
    IN  IF \/ ~StartsWith(parsed.name, basename)
           \/ parsed.ext \in ignoredExts
           \/ parsed.ext = <<>>
        THEN NotExtra
        ELSE IF type = JarType /\ classifier = <<>>
        THEN NotExtra
        ELSE [extra |-> TRUE, type |-> type, classifier |-> classifier]

\* body of the loop over fs.readdirSync(folder): what one entry contributes
ClassifyFile(basename, filePath) ==
    LET parsed == PathParse(filePath)
        type   == Substring(parsed.ext, 1)
        rest   == Substring(parsed.name, Len(basename))
        classifier == IF Len(rest) > 0 THEN Substring(rest, 1) ELSE rest
    IN  IF \/ ~StartsWith(parsed.name, basename)
           \/ parsed.ext \in ignoredExts
           \/ parsed.ext = <<>>
        THEN NotExtra
        ELSE IF Len(rest) > 0 /\ ~StartsWith(rest, <<"-">>)
        THEN NotExtra
        ELSE IF type = JarType /\ classifier = <<>>
        THEN NotExtra
        ELSE [extra |-> TRUE, type |-> type, classifier |-> classifier]

\* the whole loop: extraFiles, extraTypes, extraClassifiers after it
RECURSIVE ExtraArtifacts(_, _)
ExtraArtifacts(basename, files) ==
    IF files = <<>>
    THEN [files |-> <<>>, types |-> <<>>, classifiers |-> <<>>]
    ELSE LET r    == ClassifyFile(basename, Head(files))
             rest == ExtraArtifacts(basename, Tail(files))
         IN  IF r.extra
             THEN [files       |-> <<Head(files)>> \o rest.files,
                   types       |-> <<r.type>> \o rest.types,
                   classifiers |-> <<r.classifier>> \o rest.classifiers]
             ELSE rest

-----------------------------------------------------------------------------
(* Inputs of a run *)

Variants == {"index", "part_000", "part_001"}

\* the entries a folder may hold: two families that share a prefix (a, a-b),
\* a family without main binary (c), a classified artifact of a-b and an
\* entry with a comma in its name
FolderNames ==
    { <<"a", ".", "p", "o", "m">>,
      <<"a", ".", "j", "a", "r">>,
      <<"a", "-", "b", ".", "p", "o", "m">>,
      <<"a", "-", "b", ".", "j", "a", "r">>,
      <<"a", "-", "b", "-", "s", ".", "j", "a", "r">>,
      <<"a", "-", "x", ",", "y", ".", "z">>,
      <<"c", ".", "p", "o", "m">> }

\* listings without repeated entries, of at most MaxFiles entries
Listings ==
    { s \in UNION { [1..n -> FolderNames] : n \in 0..MaxFiles } :
        \A k, m \in 1..Len(s) : k # m => s[k] # s[m] }

remoteUrl == <<"u">>

\* what the external collaborators can answer
HttpOutcomes ==
    { [kind |-> "response", status |-> st] : st \in {200, 204, 404, 500} }
    \cup { [kind |-> "network", status |-> 0] }

-----------------------------------------------------------------------------
(* Discovery and validation *)

\* globSync('**/*.pom', {cwd: localPath}) over the folder: the entries that
\* end in ".pom" after a non-empty stem not starting with a dot, in order
RECURSIVE Glob(_)
Glob(files) ==
    IF files = <<>> THEN <<>>
    ELSE LET f == Head(files)
             m == /\ Len(f) >= 5
                  /\ f[1] # "."
                  /\ SubSeq(f, Len(f) - 3, Len(f)) = <<".", "p", "o", "m">>
         IN  IF m THEN <<f>> \o Glob(Tail(files)) ELSE Glob(Tail(files))

\* path.join(folder, basename + '.jar'), as an entry of the folder
MainArtifact(pomFile) == PathParse(pomFile).name \o <<".", "j", "a", "r">>

\* mutant: the existence test always answers true
MainArtifactExists_Always(pomFile, files) == TRUE

\* fs.existsSync(mainArtifact)
MainArtifactExists(pomFile, files) ==
    \E k \in 1..Len(files) : files[k] = MainArtifact(pomFile)

-----------------------------------------------------------------------------
(* Command line *)

Arg(k, v) == [k |-> k, v |-> v]
Lit(k) == Arg(k, <<>>)

mavenSettings == "<tempDir>/maven-settings.xml"
DeployGoal == "org.apache.maven.plugins:maven-deploy-plugin:deploy-file"
ChecksumsArg == "-Daether.checksums.algorithms=MD5,SHA-1,SHA-256,SHA-512"
RetryArg == "-DretryFailedDeploymentCount=3"

FamilyArgs(pomFile) ==
    << Lit(DeployGoal), Lit(ChecksumsArg), Lit(RetryArg),
       Arg("-Durl=", remoteUrl),
       Arg("-DpomFile=", pomFile),
       Arg("-Dfile=", MainArtifact(pomFile)) >>

\* the fixed head of cmd in each version
CmdHead(v, pomFile) ==
    IF v = "index"
    THEN << Lit("-s"), Lit(mavenSettings) >> \o FamilyArgs(pomFile)
    ELSE IF v = "part_000"
    THEN << Lit("--batch-mode"), Lit("--settings"), Lit(mavenSettings) >>
         \o FamilyArgs(pomFile)
    ELSE << Lit("--batch-mode"), Lit("--color"), Lit("always"),
            Lit("-Dorg.slf4j.simpleLogger.showDateTime=true"),
            Lit("-Dorg.slf4j.simpleLogger.dateTimeFormat=HH:mm:ss,SSS"),
            Lit("--settings"), Lit(mavenSettings) >>
         \o FamilyArgs(pomFile)

\* cmd as passed to exec.exec: the head, then the three joined lists when
\* there is at least one extra artifact
BuildCmd(v, pomFile, files) ==
    LET x == ExtraArtifacts(PathParse(pomFile).name, files)
    IN  IF Len(x.files) > 0
        THEN CmdHead(v, pomFile) \o
             << Arg("-Dfiles=", Join(x.files, <<",">>)),
                Arg("-Dtypes=", Join(x.types, <<",">>)),
                Arg("-Dclassifiers=", Join(x.classifiers, <<",">>)) >>
        ELSE CmdHead(v, pomFile)

-----------------------------------------------------------------------------
(* Settings file and cache *)

SettingsTemplate == "server remote-repository: ${env.REMOTE_REPO_USERNAME} ${env.REMOTE_REPO_PASSWORD}"

\* fs.writeFileSync(mavenSettings, ...) is part of the version
WritesSettings(v) == v \in {"part_000", "part_001"}

\* cache.restoreCache / cache.saveCache are part of the version
UsesCache(v) == v \in {"part_000", "part_001"}

\* exec.exec is given env with the credentials
PassesEnv(v) == v \in {"part_000", "part_001"}

\* exec.exec is given listeners that capture stdout and stderr, inside a try
CapturesOutput(v) == v = "part_001"

primaryCacheKey == "maven-publish-${RUNNER_OS}"
cachedPaths == "~/.m2/repository"

NoCacheCall == [called |-> FALSE, paths |-> "", key |-> "", outcome |-> "none"]
CacheCall(outcome) ==
    [called |-> TRUE, paths |-> cachedPaths, key |-> primaryCacheKey,
     outcome |-> outcome]

\* mutant: the run ends after the loop without saving
AfterLoop_NoSave(v) == "done"

\* where main() goes when the loop over pomFiles is exhausted
AfterLoop(v) == IF UsesCache(v) THEN "save" ELSE "done"

-----------------------------------------------------------------------------
(* Errors and the outer catch *)

ExecError == [isError |-> TRUE, message |-> "The process 'mvn' failed with exit code 1"]
RestoreError == [isError |-> TRUE, message |-> "restoreCache failed"]
SaveError == [isError |-> TRUE, message |-> "saveCache failed"]
ProbeError == [isError |-> TRUE, message |-> "artifactExists failed"]

\* mutant: the outer catch swallows the error
Catch_Swallow(err) == [failed |-> FALSE, message |-> ""]

\* catch (error) { if (error instanceof Error) core.setFailed(error.message) }
Catch(err) ==
    IF err.isError
    THEN [failed |-> TRUE, message |-> err.message]
    ELSE [failed |-> FALSE, message |-> ""]

\* stderr.includes('status: 400 Bad Request') || stdout.includes(...)
IsRejection400(stdout400, stderr400) == stderr400 \/ stdout400

-----------------------------------------------------------------------------
(* Idempotency probe *)

\* axios.get: resolves for a status in 200..299, rejects otherwise
AxiosGet(resp) ==
    IF resp.kind = "response" /\ resp.status >= 200 /\ resp.status < 300
    THEN [resolved |-> TRUE, status |-> resp.status]
    ELSE [resolved |-> FALSE, status |-> resp.status]

ProbeResult(result, warned, raised) ==
    [result |-> result, warned |-> warned, raised |-> raised]

\* mutant: the catch block rethrows what is not a 404
ArtifactExists_Rethrow(resp) ==
    LET r == AxiosGet(resp)
    IN  IF r.resolved
        THEN ProbeResult(r.status = 200, FALSE, FALSE)
        ELSE IF r.status = 404
        THEN ProbeResult(FALSE, FALSE, FALSE)
        ELSE ProbeResult(FALSE, FALSE, TRUE)

\* artifactExists: the value returned, whether core.warning was called and
\* whether an error left the function
ArtifactExists(resp) ==
    LET r == AxiosGet(resp)
    IN  IF r.resolved
        THEN IF r.status = 200
             THEN ProbeResult(TRUE, FALSE, FALSE)
             ELSE ProbeResult(FALSE, FALSE, FALSE)
        ELSE IF r.status = 404
        THEN ProbeResult(FALSE, FALSE, FALSE)
        ELSE ProbeResult(FALSE, TRUE, FALSE)

-----------------------------------------------------------------------------
(* The run: main() of the three versions, one action per stretch of code    *)
(* between two awaits                                                       *)

\* entry of log for an exec.exec call that has not returned yet
Launched(v, pomFile, files, settings) ==
    [ pomFile   |-> pomFile,
      cmd       |-> BuildCmd(v, pomFile, files),
      listing   |-> files,
      settings  |-> settings,
      env       |-> PassesEnv(v),
      result    |-> "running",
      stdout400 |-> FALSE,
      stderr400 |-> FALSE,
      coords    |-> "unread",
      probe     |-> "none" ]

Warning(kind, about) == [kind |-> kind, about |-> about]

Last(s) == s[Len(s)]
SetLast(s, e) == [s EXCEPT ![Len(s)] = e]

RunInit ==
    /\ variant \in Variants
    /\ listing \in Listings
    /\ pomFiles = <<>>
    /\ pc = "start"
    /\ i = 1
    /\ settingsFile = "absent"
    /\ cacheRestore = NoCacheCall
    /\ cacheSave = NoCacheCall
    /\ log = <<>>
    /\ warnings = <<>>
    /\ failed = FALSE
    /\ failMessage = ""
    /\ probes = <<>>

\* the outer catch block, then the end of main()
Throw(err) ==
    /\ failed' = Catch(err).failed
    /\ failMessage' = Catch(err).message
    /\ pc' = "done"

\* inputs, globSync, and in part_000/part_001 the settings file; then the
\* await of restoreCache, or in index.ts the loop
Start ==
    /\ pc = "start"
    /\ UNCHANGED clsVars
    /\ pomFiles' = Glob(listing)
    /\ settingsFile' = IF WritesSettings(variant) THEN SettingsTemplate
                       ELSE settingsFile
    /\ pc' = IF UsesCache(variant) THEN "restore" ELSE "loop"
    /\ UNCHANGED <<variant, listing, i, cacheRestore, cacheSave, log,
                   warnings, failed, failMessage, probes>>

\* cache.restoreCache returns a key, returns undefined, or throws
RestoreCache ==
    /\ pc = "restore"
    /\ UNCHANGED clsVars
    /\ \E outcome \in {"hit", "miss", "throw"} :
         /\ cacheRestore' = CacheCall(outcome)
         /\ IF outcome = "throw"
            THEN Throw(RestoreError)
            ELSE /\ pc' = "loop"
                 /\ UNCHANGED <<failed, failMessage>>
    /\ UNCHANGED <<variant, listing, pomFiles, i, settingsFile, cacheSave,
                   log, warnings, probes>>

\* the for-of loop is exhausted
LoopExit ==
    /\ pc = "loop"
    /\ UNCHANGED clsVars
    /\ i > Len(pomFiles)
    /\ pc' = AfterLoop(variant)
    /\ UNCHANGED <<variant, listing, pomFiles, i, settingsFile, cacheRestore,
                   cacheSave, log, warnings, failed, failMessage, probes>>

\* the main artifact is missing: warning and continue
SkipFamily ==
    /\ pc = "loop"
    /\ UNCHANGED clsVars
    /\ i <= Len(pomFiles)
    /\ ~MainArtifactExists(pomFiles[i], listing)
    /\ warnings' = Append(warnings,
                          Warning("Main artifact not found", pomFiles[i]))
    /\ i' = i + 1
    /\ UNCHANGED <<variant, listing, pomFiles, pc, settingsFile, cacheRestore,
                   cacheSave, log, failed, failMessage, probes>>

\* cmd is built from the folder listing and exec.exec('mvn', cmd) is called
LaunchDeploy ==
    /\ pc = "loop"
    /\ UNCHANGED clsVars
    /\ i <= Len(pomFiles)
    /\ MainArtifactExists(pomFiles[i], listing)
    /\ log' = Append(log, Launched(variant, pomFiles[i], listing, settingsFile))
    /\ pc' = "exec"
    /\ UNCHANGED <<variant, listing, pomFiles, i, settingsFile, cacheRestore,
                   cacheSave, warnings, failed, failMessage, probes>>

\* exec.exec resolves: next family.  The captured streams are read only in
\* the catch block, so what they hold after a success is left out.
DeployOk ==
    /\ pc = "exec"
    /\ UNCHANGED clsVars
    /\ log' = SetLast(log, [Last(log) EXCEPT !.result = "ok"])
    /\ i' = i + 1
    /\ pc' = "loop"
    /\ UNCHANGED <<variant, listing, pomFiles, settingsFile, cacheRestore,
                   cacheSave, warnings, failed, failMessage, probes>>

\* exec.exec rejects and the error reaches the outer catch: there is no
\* inner try (index.ts, part_000), or the captured streams do not hold the
\* signature and the inner catch rethrows (part_001).  out/err: whether the
\* stream of the process holds the text 'status: 400 Bad Request'.
DeployFailFatal ==
    /\ pc = "exec"
    /\ UNCHANGED clsVars
    /\ \E out, err \in BOOLEAN :
         LET so == CapturesOutput(variant) /\ out
             se == CapturesOutput(variant) /\ err
         IN  /\ ~(CapturesOutput(variant) /\ IsRejection400(so, se))
             /\ log' = SetLast(log, [Last(log) EXCEPT
                         !.result = "failed",
                         !.stdout400 = so, !.stderr400 = se])
    /\ Throw(ExecError)
    /\ UNCHANGED <<variant, listing, pomFiles, i, settingsFile, cacheRestore,
                   cacheSave, warnings, probes>>

\* exec.exec rejects and a captured stream holds the signature (part_001):
\* the descriptor is read; with the three coordinates artifactExists is
\* awaited, without them the catch block ends and the loop goes on
DeployFailRejected ==
    /\ pc = "exec"
    /\ UNCHANGED clsVars
    /\ CapturesOutput(variant)
    /\ \E out, err, matched \in BOOLEAN :
         /\ IsRejection400(out, err)
         /\ log' = SetLast(log, [Last(log) EXCEPT
                     !.result = "failed",
                     !.stdout400 = out, !.stderr400 = err,
                     !.coords = IF matched THEN "matched" ELSE "unmatched"])
         /\ IF matched
            THEN /\ pc' = "probe"
                 /\ i' = i
            ELSE /\ pc' = "loop"
                 /\ i' = i + 1
    /\ UNCHANGED <<variant, listing, pomFiles, settingsFile, cacheRestore,
                   cacheSave, warnings, failed, failMessage, probes>>

\* artifactExists returns (or raises): a warning for a transport error, a
\* warning when the artifact exists; then the catch block ends and the loop
\* goes on
ProbeReturn ==
    /\ pc = "probe"
    /\ UNCHANGED clsVars
    /\ \E resp \in HttpOutcomes :
         LET r == ArtifactExists(resp)
             w1 == IF r.warned
                   THEN <<Warning("Failed to check artifact existence",
                                  Last(log).pomFile)>>
                   ELSE <<>>
             w2 == IF ~r.raised /\ r.result
                   THEN <<Warning("Artifact already exists in the repository",
                                  Last(log).pomFile)>>
                   ELSE <<>>
         IN  /\ probes' = Append(probes, [resp |-> resp, out |-> r])
             /\ warnings' = warnings \o w1 \o w2
             /\ log' = SetLast(log, [Last(log) EXCEPT
                         !.probe = IF r.raised THEN "raised"
                                   ELSE IF r.result THEN "true" ELSE "false"])
             /\ IF r.raised
                THEN /\ Throw(ProbeError)
                     /\ i' = i
                ELSE /\ pc' = "loop"
                     /\ i' = i + 1
                     /\ UNCHANGED <<failed, failMessage>>
    /\ UNCHANGED <<variant, listing, pomFiles, settingsFile, cacheRestore,
                   cacheSave>>

\* cache.saveCache returns or throws
SaveCache ==
    /\ pc = "save"
    /\ UNCHANGED clsVars
    /\ \E outcome \in {"ok", "throw"} :
         /\ cacheSave' = CacheCall(outcome)
         /\ IF outcome = "throw"
            THEN Throw(SaveError)
            ELSE /\ pc' = "done"
                 /\ UNCHANGED <<failed, failMessage>>
    /\ UNCHANGED <<variant, listing, pomFiles, i, settingsFile, cacheRestore,
                   log, warnings, probes>>

Init ==
    /\ RunInit
    /\ cbase = <<>>
    /\ cfile = <<>>
    /\ cout = <<>>

Next ==
    \/ Start
    \/ RestoreCache
    \/ LoopExit
    \/ SkipFamily
    \/ LaunchDeploy
    \/ DeployOk
    \/ DeployFailFatal
    \/ DeployFailRejected
    \/ ProbeReturn
    \/ SaveCache

Spec == Init /\ [][Next]_vars

-----------------------------------------------------------------------------
(* The loop body on its own: one family base name, one sibling *)

StemChars == {"a", "b", "-", "."}

Stems == UNION { [1..n -> StemChars] : n \in 0..MaxStemLen }

ExtPool ==
    ignoredExts \cup
    { <<>>, <<".">>, <<".", "j", "a", "r">>, <<".", "a", "s", "c">>,
      <<".", "J", "A", "R">> }

\* names readdirSync can return: not empty, not "." and not ".."
GenNames ==
    { st \o e : st \in Stems, e \in ExtPool } \ { <<>>, <<".">>, <<".", ".">> }

\* path.parse(pomFile).name of descriptors the glob can match
Bases == { <<"a">>, <<"a", "b">>, <<"a", "-", "b">>, <<"a", ".", "b">> }

ClsInit ==
    /\ cbase \in Bases
    /\ cfile \in GenNames
    /\ cout = <<>>
    /\ variant = "part_001"
    /\ listing = <<>>
    /\ pomFiles = <<>>
    /\ pc = "start"
    /\ i = 1
    /\ settingsFile = "absent"
    /\ cacheRestore = NoCacheCall
    /\ cacheSave = NoCacheCall
    /\ log = <<>>
    /\ warnings = <<>>
    /\ failed = FALSE
    /\ failMessage = ""
    /\ probes = <<>>

\* one pass of the loop body over the sibling
Classify ==
    /\ cout = <<>>
    /\ cout' = <<ClassifyFile(cbase, cfile)>>
    /\ UNCHANGED <<cbase, cfile>>
    /\ UNCHANGED runVars

ClassifySpec == ClsInit /\ [][Classify]_vars

-----------------------------------------------------------------------------
(* Reading a command line the way the deploy tool does *)

HasArg(cmd, a) == \E k \in 1..Len(cmd) : cmd[k] = a

HasKey(cmd, key) == \E k \in 1..Len(cmd) : cmd[k].k = key

ArgVal(cmd, key) == cmd[CHOOSE k \in 1..Len(cmd) : cmd[k].k = key].v

\* the entries of a comma-separated list: one more than it has commas
RECURSIVE Split(_)
Split(str) ==
    LET commas == {k \in 1..Len(str) : str[k] = ","}
    IN  IF commas = {} THEN <<str>>
        ELSE LET c == CHOOSE k \in commas : \A m \in commas : k <= m
             IN  <<SubSeq(str, 1, c - 1)>> \o Split(SubSeq(str, c + 1, Len(str)))

\* the file names of a sequence, as a set
Range(seq) == {seq[k] : k \in 1..Len(seq)}

\* the folder holds <baseName>.jar for this descriptor
HasJar(pomFile, files) ==
    PathParse(pomFile).name \o <<".", "j", "a", "r">> \in Range(files)

\* a captured stream of the invocation holds the 400-rejection signature
Signature(e) == e.stdout400 \/ e.stderr400

\* the invocation and what its failure led to are over
Settled(k) == k < Len(log) \/ pc \in {"loop", "save", "done"}

-----------------------------------------------------------------------------
(* C1 *)

\* C1 (as claimed): a failed invocation whose captured output holds the
\* 400-rejection signature and whose probe did not confirm the artifact
\* (probe answered false, or the coordinates were not extracted) ends the
\* run: the run is marked failed and no later family is deployed.
C1_OnlyConfirmedDowngrades ==
    \A k \in 1..Len(log) :
        ( /\ log[k].result = "failed"
          /\ Signature(log[k])
          /\ Settled(k)
          /\ log[k].probe # "true" )
        => (failed /\ pc = "done" /\ k = Len(log))

-----------------------------------------------------------------------------
(* C2 *)

RestoreCompleted == cacheRestore.called /\ cacheRestore.outcome # "throw"

SameCacheArgs ==
    /\ cacheSave.paths = cacheRestore.paths
    /\ cacheSave.key = cacheRestore.key

\* a failing invocation whose error reached the outer catch
DeployErrorPropagated ==
    \E k \in 1..Len(log) : log[k].result = "failed" /\ ~Signature(log[k])

-----------------------------------------------------------------------------
(* C3 *)

Is2xx(resp) == resp.kind = "response" /\ resp.status >= 200 /\ resp.status < 300
Is404(resp) == resp.kind = "response" /\ resp.status = 404

\* C3 (as claimed): the probe never raises; every 200-class response gives
\* true, a 404 gives false, any other outcome gives false and a warning.
C3_Every2xxTrue ==
    \A k \in 1..Len(probes) :
        LET p == probes[k]
        IN  /\ ~p.out.raised
            /\ Is2xx(p.resp) => p.out.result
            /\ Is404(p.resp) => ~p.out.result
            /\ (~Is2xx(p.resp) /\ ~Is404(p.resp)) =>
                   (~p.out.result /\ p.out.warned)

\* C3 (amended): the probe never raises; a response with status 200 gives
\* true; any other 200-class status gives false without a warning; a 404
\* gives false without a warning; any other outcome gives false and a warning.
C3_Only200True ==
    \A k \in 1..Len(probes) :
        LET p == probes[k]
        IN  /\ ~p.out.raised
            /\ (p.resp.kind = "response" /\ p.resp.status = 200) =>
                   (p.out.result /\ ~p.out.warned)
            /\ (Is2xx(p.resp) /\ p.resp.status # 200) =>
                   (~p.out.result /\ ~p.out.warned)
            /\ Is404(p.resp) => (~p.out.result /\ ~p.out.warned)
            /\ (~Is2xx(p.resp) /\ ~Is404(p.resp)) =>
                   (~p.out.result /\ p.out.warned)

\* one run in which the probe met a transport error for one family and a
\* 200 for the next
C3_Witness ==
    /\ Len(probes) >= 2
    /\ probes[1].resp.kind = "network"
    /\ probes[2].resp.status = 200

-----------------------------------------------------------------------------
(* C4 *)

\* C4 (as claimed): every invocation, in every version, holds the batch flag,
\* the settings path, the goal, the checksum override, the retry count, the
\* remote URL, and the descriptor and main binary of its own family.
C4_AllArgsInEveryVariant ==
    \A k \in 1..Len(log) :
        LET e == log[k]
        IN  /\ HasArg(e.cmd, Lit("--batch-mode"))
            /\ HasArg(e.cmd, Lit(mavenSettings))
            /\ HasArg(e.cmd, Lit(DeployGoal))
            /\ HasArg(e.cmd, Lit(ChecksumsArg))
            /\ HasArg(e.cmd, Lit(RetryArg))
            /\ HasArg(e.cmd, Arg("-Durl=", remoteUrl))
            /\ HasArg(e.cmd, Arg("-DpomFile=", e.pomFile))
            /\ HasArg(e.cmd, Arg("-Dfile=",
                   PathParse(e.pomFile).name \o <<".", "j", "a", "r">>))

-----------------------------------------------------------------------------
(* C5 *)

C5_ReservedExts ==
    { <<".", "p", "o", "m">>, <<".", "m", "d", "5">>,
      <<".", "s", "h", "a", "1">>, <<".", "s", "h", "a", "2", "5", "6">>,
      <<".", "s", "h", "a", "5", "1", "2">> }

\* the reference rule for base name B and file name f
C5_Reference(B, f) ==
    LET stem == PathParse(f).name
        ext  == PathParse(f).ext
        remainder  == SubSeq(stem, Len(B) + 1, Len(stem))
        classifier == IF remainder = <<>> THEN <<>> ELSE Tail(remainder)
        type       == IF ext = <<>> THEN <<>> ELSE Tail(ext)
        isExtra ==
            /\ Len(stem) >= Len(B)
            /\ \A k \in 1..Len(B) : stem[k] = B[k]
            /\ ext # <<>>
            /\ ext \notin C5_ReservedExts
            /\ (remainder = <<>> \/ Head(remainder) = "-")
            /\ ~(type = <<"j", "a", "r">> /\ classifier = <<>>)
    IN  [extra |-> isExtra, type |-> type, classifier |-> classifier]

\* C5: the loop body classifies a sibling as an extra artifact exactly when
\* the reference rule does, and then with the reference rule's classifier
\* and type; every other sibling contributes nothing to the extra lists.
C5_ClassificationAgrees ==
    cout # <<>> =>
        LET ref == C5_Reference(cbase, cfile)
        IN  /\ cout[1].extra <=> ref.extra
            /\ ref.extra => /\ cout[1].type = ref.type
                            /\ cout[1].classifier = ref.classifier
            /\ ExtraArtifacts(cbase, <<cfile>>).files =
                   IF ref.extra THEN <<cfile>> ELSE <<>>

\* a classified sibling (a-b.jar for base a) has been classified
C5_Witness ==
    /\ cout # <<>>
    /\ cout[1].extra
    /\ cout[1].classifier = <<"b">>
    /\ cout[1].type = <<"j", "a", "r">>
    /\ cbase = <<"a">>

-----------------------------------------------------------------------------
(* C6 *)

\* C6: at a descriptor whose folder has no <baseName>.jar the step of the run
\* executes nothing, records the warning, leaves the failed mark alone and
\* moves to the next descriptor; no invocation is ever executed for such a
\* descriptor; and when the loop ends, every descriptor that has its main
\* binary has been deployed.
C6_MissingMainSkipped ==
    [][ /\ ( /\ pc = "loop"
             /\ i <= Len(pomFiles)
             /\ ~HasJar(pomFiles[i], listing) )
           => /\ log' = log
              /\ warnings' = Append(warnings,
                     [kind |-> "Main artifact not found", about |-> pomFiles[i]])
              /\ failed' = failed
              /\ pc' = "loop"
              /\ i' = i + 1
        /\ \A k \in 1..Len(log') : HasJar(log'[k].pomFile, listing')
        /\ (pc = "loop" /\ pc' \in {"save", "done"})
           => \A m \in 1..Len(pomFiles) :
                  HasJar(pomFiles[m], listing)
                  => \E k \in 1..Len(log) : log[k].pomFile = pomFiles[m]
      ]_vars

\* a descriptor without main binary was skipped and a later one deployed
C6_Witness ==
    /\ Len(warnings) >= 1
    /\ warnings[1].kind = "Main artifact not found"
    /\ Len(log) >= 1
    /\ \E m, n \in 1..Len(pomFiles) :
         /\ m < n
         /\ pomFiles[m] = warnings[1].about
         /\ pomFiles[n] = log[1].pomFile
    /\ ~failed

-----------------------------------------------------------------------------
(* C7 *)

\* C7: a failed invocation with no signature in a captured stream is the last
\* invocation of the run, and the run ends marked failed with the message of
\* that error; a cache call that throws ends the run marked failed too.
C7_UnrecoveredErrorFails ==
    /\ \A k \in 1..Len(log) :
         (log[k].result = "failed" /\ ~Signature(log[k]))
         => /\ k = Len(log)
            /\ pc = "done"
            /\ failed
            /\ failMessage = "The process 'mvn' failed with exit code 1"
    /\ (cacheRestore.outcome = "throw" \/ cacheSave.outcome = "throw")
         => (pc = "done" /\ failed /\ failMessage # "")

\* a deploy failed fatally while a later family with its main binary waited
C7_Witness ==
    /\ pc = "done"
    /\ Len(log) >= 1
    /\ Last(log).result = "failed"
    /\ ~Signature(Last(log))
    /\ \E m \in (i + 1)..Len(pomFiles) : HasJar(pomFiles[m], listing)

-----------------------------------------------------------------------------
(* C8 *)

\* C8 (as claimed): for a family with extra artifacts the three lists of the
\* command line have the same number of entries, the i-th type and
\* classifier are those of the i-th file, and the files come in the order of
\* the folder listing; a family without extras carries none of the three.
C8_ListsAligned ==
    \A k \in 1..Len(log) :
        LET e    == log[k]
            base == PathParse(e.pomFile).name
            IsExtra(f) == C5_Reference(base, f).extra
            F == Split(ArgVal(e.cmd, "-Dfiles="))
            T == Split(ArgVal(e.cmd, "-Dtypes="))
            C == Split(ArgVal(e.cmd, "-Dclassifiers="))
        IN  IF \E f \in Range(e.listing) : IsExtra(f)
            THEN /\ HasKey(e.cmd, "-Dfiles=")
                 /\ HasKey(e.cmd, "-Dtypes=")
                 /\ HasKey(e.cmd, "-Dclassifiers=")
                 /\ Len(F) = Len(T)
                 /\ Len(F) = Len(C)
                 /\ F = SelectSeq(e.listing, IsExtra)
                 /\ \A n \in 1..Len(F) :
                      /\ T[n] = C5_Reference(base, F[n]).type
                      /\ C[n] = C5_Reference(base, F[n]).classifier
            ELSE /\ ~HasKey(e.cmd, "-Dfiles=")
                 /\ ~HasKey(e.cmd, "-Dtypes=")
                 /\ ~HasKey(e.cmd, "-Dclassifiers=")

-----------------------------------------------------------------------------
(* C9 *)

\* C9 (as claimed): in every version, the settings file an invocation
\* references was written by this run, from the template, before the
\* invocation was executed.
C9_SettingsWrittenBeforeDeploy ==
    \A k \in 1..Len(log) :
        /\ HasArg(log[k].cmd, Lit(mavenSettings))
        /\ log[k].settings = SettingsTemplate

-----------------------------------------------------------------------------
(* C10 *)

\* the folder entries the invocation publishes as extra artifacts
ExtrasOf(e) ==
    IF HasKey(e.cmd, "-Dfiles=")
    THEN Range(Split(ArgVal(e.cmd, "-Dfiles="))) \cap Range(e.listing)
    ELSE {}

\* C10 (as claimed): no invocation carries the main binary of another family
\* among its extra artifacts, and no file is an extra artifact of two
\* invocations.
C10_FilePublishedOnce ==
    /\ \A k \in 1..Len(log) : \A m \in 1..Len(pomFiles) :
         pomFiles[m] # log[k].pomFile
         => PathParse(pomFiles[m]).name \o <<".", "j", "a", "r">>
                \notin ExtrasOf(log[k])
    /\ \A k, m \in 1..Len(log) :
         k # m => ExtrasOf(log[k]) \cap ExtrasOf(log[m]) = {}

====
